---- MODULE Spec2Model ----
(***************************************************************************)
(* A model of the pdf_to_table scripts: the extractor                      *)
(* (docling_excel_extractor.py) and the three aggregation scripts          *)
(* (compile_reports.py, csv_to_excel_by_page.py,                           *)
(* csv_to_excel_by_trimester.py).                                          *)
(*                                                                         *)
(* Strings are sequences of one-character strings, so that the regular     *)
(* expressions, int(), str() and the f-strings of the scripts are          *)
(* computed character by character.                                        *)
(***************************************************************************)
EXTENDS Integers, Sequences, FiniteSets, TLC

VARIABLES
    \* ---- file naming: extractor output name -> search -> parser
    n_pc,          \* "start" | "written" | "searched" | "parsed"
    n_dir,         \* directory name under batch_processing_output
    n_file,        \* file base name
    n_stem,        \* the PDF's base name when the extractor wrote the file, else <<>>
    n_page,        \* the page the extractor wrote the file for, else 0
    n_found,       \* whether glob's search pattern matched the path
    n_parsed,      \* what parse_filename returned
    n_page_parsed, \* what parse_filename_for_page_sheet returned
    n_trim_parsed, \* what parse_filename_for_trimester_sheet returned
    \* ---- aggregation: the files under batch_processing_output and the outputs
    disk,          \* the files of the directory, in the order glob lists them
    compiled,      \* compiled_financial_reports.csv
    page_book,     \* trimester_page_reports.xlsx
    trimester_book, \* trimester_reports.xlsx
    \* ---- convert_markdown_to_csv, called on its own
    c_pc,          \* "start" | "done"
    c_exists,      \* whether the Markdown file exists
    c_dfs,         \* the tables of the Markdown file, as pd.read_html gives them
    c_result,      \* what the call returned and wrote
    c_fault,       \* what fails in the call: nothing, the reading, the saving
    \* ---- the extractor's batch loop
    e_pc,          \* the position in __main__ and in the function it calls
    e_i,           \* the place of the current entry in pdfs_to_process
    e_j,           \* the place of the current page in pages_to_extract
    e_present,     \* the PDF files that exist when the batch looks for them
    e_deleted,     \* the PDF files deleted after the batch found them
    e_attempts,    \* the calls of the extraction function made: <<entry, page>>
    e_failed_at,   \* the number of the first call that failed, 0 when none did
    e_temp,        \* the temporary PNG: "none" | "present" | "removed" |
                   \* "remove_failed" (present, os.remove raised)
    e_temp_path,   \* whether temp_image_path is set
    e_generated,   \* markdown_content_generated
    e_exit,        \* how the try block is left: "fall" | "return"
    e_md,          \* the tables of the Markdown written for the page
    e_conv,        \* what convert_markdown_to_csv did for the page
    e_steps        \* the steps the running call has taken: <<step, outcome>>

nameVars == <<n_pc, n_dir, n_file, n_stem, n_page, n_found, n_parsed,
              n_page_parsed, n_trim_parsed>>

aggVars == <<disk, compiled, page_book, trimester_book>>

convVars == <<c_pc, c_exists, c_dfs, c_result, c_fault>>

extVars == <<e_pc, e_i, e_j, e_present, e_deleted, e_attempts, e_failed_at,
             e_temp, e_temp_path, e_generated, e_exit, e_md, e_conv, e_steps>>

vars == <<nameVars, aggVars, convVars, extVars>>

(***************************************************************************)
(* Bounds of the model.                                                    *)
(***************************************************************************)
MaxPage == 11

MaxFiles == 3

MaxTables == 3

MaxPdfs == 3

(***************************************************************************)
(* Python values.                                                          *)
(***************************************************************************)
None == [none |-> TRUE]

Min(a, b) == IF a < b THEN a ELSE b

Max(a, b) == IF a > b THEN a ELSE b

Digits == {"0", "1", "2", "3", "4", "5", "6", "7", "8", "9"}

DigitVal(c) ==
    CASE c = "0" -> 0 [] c = "1" -> 1 [] c = "2" -> 2 [] c = "3" -> 3
      [] c = "4" -> 4 [] c = "5" -> 5 [] c = "6" -> 6 [] c = "7" -> 7
      [] c = "8" -> 8 [] c = "9" -> 9

DigitChar(d) ==
    CASE d = 0 -> "0" [] d = 1 -> "1" [] d = 2 -> "2" [] d = 3 -> "3"
      [] d = 4 -> "4" [] d = 5 -> "5" [] d = 6 -> "6" [] d = 7 -> "7"
      [] d = 8 -> "8" [] d = 9 -> "9"

\* int(s) of a string of decimal digits
RECURSIVE StrToInt(_)
StrToInt(s) ==
    IF Len(s) = 0 THEN 0
    ELSE 10 * StrToInt(SubSeq(s, 1, Len(s) - 1)) + DigitVal(s[Len(s)])

\* str(n) of a non-negative int, as an f-string formats it
RECURSIVE IntToStr(_)
IntToStr(n) ==
    IF n < 10 THEN <<DigitChar(n)>>
    ELSE IntToStr(n \div 10) \o <<DigitChar(n % 10)>>

\* whether the literal lit stands in s at position i
HasAt(s, i, lit) ==
    /\ i + Len(lit) - 1 <= Len(s)
    /\ SubSeq(s, i, i + Len(lit) - 1) = lit

StartsWith(s, lit) == HasAt(s, 1, lit)

EndsWith(s, lit) == Len(s) >= Len(lit) /\ HasAt(s, Len(s) - Len(lit) + 1, lit)

\* the length of the longest run of digits of s that starts at position i
RECURSIVE DigitRun(_, _)
DigitRun(s, i) ==
    IF i <= Len(s) /\ s[i] \in Digits THEN 1 + DigitRun(s, i + 1) ELSE 0

(***************************************************************************)
(* The literals of the file names.                                         *)
(***************************************************************************)
UnderscoreP == <<"_", "p">>

AllTablesCsv ==
    <<"_", "a", "l", "l", "_", "t", "a", "b", "l", "e", "s", ".", "c", "s", "v">>

CsvPrefix == <<"c", "s", "v", "_">>

(***************************************************************************)
(* re.match(r'([1-4]T\d{2,})_p(\d+)_all_tables\.csv', filename), the       *)
(* pattern of all three parsers.  re.match anchors the pattern at the      *)
(* start of the string only.  \d{2,} and \d+ are greedy and each is        *)
(* followed by the non-digit "_", so the only run of digits that can match *)
(* is the longest one: backtracking to a shorter run leaves a digit where  *)
(* "_" is required.                                                        *)
(***************************************************************************)
FilenameRegexMatch(s) ==
    LET y  == DigitRun(s, 3)
        p0 == 3 + y
        pg == DigitRun(s, p0 + 2)
        q0 == p0 + 2 + pg
    IN  IF /\ Len(s) >= 2
           /\ s[1] \in {"1", "2", "3", "4"}
           /\ s[2] = "T"
           /\ y >= 2
           /\ HasAt(s, p0, UnderscoreP)
           /\ pg >= 1
           /\ HasAt(s, q0, AllTablesCsv)
        THEN [group1 |-> SubSeq(s, 1, p0 - 1),
              group2 |-> SubSeq(s, p0 + 2, q0 - 1)]
        ELSE None

\* re.match(r'([1-4]T)(\d{2,})', basename_part): anchored at the start only
TrimesterRegexMatch(s) ==
    LET y == DigitRun(s, 3)
    IN  IF /\ Len(s) >= 2
           /\ s[1] \in {"1", "2", "3", "4"}
           /\ s[2] = "T"
           /\ y >= 2
        THEN [group1 |-> SubSeq(s, 1, 2), group2 |-> SubSeq(s, 3, 2 + y)]
        ELSE None

\* trimester_map.get(trimester_str)
trimester_map(t) ==
    CASE t = <<"1", "T">> -> 1
      [] t = <<"2", "T">> -> 2
      [] t = <<"3", "T">> -> 3
      [] t = <<"4", "T">> -> 4
      [] OTHER -> 0

\* os.path.basename of a path dir/name
Basename(filepath) == filepath.name

\* compile_reports.parse_filename
parse_filename(filepath) ==
    LET match == FilenameRegexMatch(Basename(filepath))
    IN  IF match = None THEN None
        ELSE LET basename_part   == match.group1
                 page_number     == StrToInt(match.group2)
                 trimester_match == TrimesterRegexMatch(basename_part)
             IN  IF trimester_match = None THEN None
                 ELSE LET trimester_num == trimester_map(trimester_match.group1)
                          year_num      == StrToInt(trimester_match.group2)
                      IN  IF trimester_num = 0 THEN None
                          ELSE [filepath          |-> filepath,
                                year              |-> year_num,
                                trimester         |-> trimester_num,
                                page              |-> page_number,
                                original_basename |-> basename_part]

\* csv_to_excel_by_page.parse_filename_for_page_sheet
parse_filename_for_page_sheet(filepath) ==
    LET match == FilenameRegexMatch(Basename(filepath))
    IN  IF match = None THEN None
        ELSE [trimester_id |-> match.group1,
              page         |-> StrToInt(match.group2),
              filepath     |-> filepath]

\* csv_to_excel_by_trimester.parse_filename_for_trimester_sheet
parse_filename_for_trimester_sheet(filepath) ==
    LET match == FilenameRegexMatch(Basename(filepath))
    IN  IF match = None THEN None
        ELSE [trimester_id |-> match.group1,
              page         |-> StrToInt(match.group2),
              filepath     |-> filepath]

(***************************************************************************)
(* glob.glob(os.path.join(base_dir, 'csv_*/*_all_tables.csv')): the        *)
(* directory starts with "csv_", the file ends with "_all_tables.csv", and *)
(* a "*" at the start of a pattern does not match a leading dot.           *)
(***************************************************************************)
GlobMatches(filepath) ==
    /\ StartsWith(filepath.dir, CsvPrefix)
    /\ EndsWith(filepath.name, AllTablesCsv)
    /\ ~StartsWith(filepath.name, <<".">>)

(***************************************************************************)
(* The extractor's names: pathlib.Path(pdf).stem, then                     *)
(* f"csv_{pdf_basename}_p{page}" and f"{pdf_basename}_p{page}_all_tables.csv". *)
(***************************************************************************)
\* the position of the last "." of s, 0 when there is none
RECURSIVE LastDot(_)
LastDot(s) ==
    IF Len(s) = 0 THEN 0
    ELSE IF s[Len(s)] = "." THEN Len(s)
    ELSE LastDot(SubSeq(s, 1, Len(s) - 1))

\* pathlib's stem: the name without its last suffix; a leading dot starts no suffix
Stem(name) ==
    LET i == LastDot(name)
    IN  IF i > 1 /\ i < Len(name) THEN SubSeq(name, 1, i - 1) ELSE name

csv_output_subdir_name(pdf_basename, page) ==
    CsvPrefix \o pdf_basename \o UnderscoreP \o IntToStr(page)

concatenated_csv_name(pdf_basename, page) ==
    pdf_basename \o UnderscoreP \o IntToStr(page) \o AllTablesCsv

(***************************************************************************)
(* Stable sorting, as list.sort(key=...) and sorted(..., key=...) do it:   *)
(* keys are tuples of ints compared lexicographically, and items with      *)
(* equal keys keep their order.                                            *)
(***************************************************************************)
RECURSIVE TupleLess(_, _)
TupleLess(a, b) ==
    IF Len(a) = 0 \/ Len(b) = 0 THEN Len(a) < Len(b)
    ELSE IF a[1] # b[1] THEN a[1] < b[1]
    ELSE TupleLess(Tail(a), Tail(b))

\* acc is sorted by key; the pair goes behind every pair whose key is not greater
InsertByKey(acc, pair) ==
    LET NotGreater(x) == ~TupleLess(pair.key, x.key)
        Greater(x)    == TupleLess(pair.key, x.key)
    IN  SelectSeq(acc, NotGreater) \o <<pair>> \o SelectSeq(acc, Greater)

RECURSIVE SortPairs(_)
SortPairs(pairs) ==
    IF Len(pairs) = 0 THEN <<>>
    ELSE InsertByKey(SortPairs(SubSeq(pairs, 1, Len(pairs) - 1)), pairs[Len(pairs)])

\* items sorted by keys, keys[i] being the key of items[i]
SortByKeys(items, keys) ==
    LET pairs  == [i \in 1..Len(items) |-> [item |-> items[i], key |-> keys[i]]]
        sorted == SortPairs(pairs)
    IN  [i \in 1..Len(sorted) |-> sorted[i].item]

(***************************************************************************)
(* Data frames: column names and rows of cells.  NaN is the missing cell;  *)
(* a frame is empty when it has no row or no column.                       *)
(***************************************************************************)
NaN == "NaN"

EmptyFrame == [columns |-> <<>>, rows |-> <<>>]

IsEmpty(df) == Len(df.rows) = 0 \/ Len(df.columns) = 0

\* w cells of the value v
CellsOf(v, w) == [j \in 1..w |-> v]

\* df.fillna('')
FillNa(df) ==
    [columns |-> df.columns,
     rows    |-> [i \in 1..Len(df.rows) |->
                    [j \in 1..Len(df.rows[i]) |->
                        IF df.rows[i][j] = NaN THEN "" ELSE df.rows[i][j]]]]

\* the position of name c in the column names cols, 0 when it is not one
RECURSIVE ColumnIndex(_, _)
ColumnIndex(cols, c) ==
    IF Len(cols) = 0 THEN 0
    ELSE IF cols[Len(cols)] = c /\ ColumnIndex(SubSeq(cols, 1, Len(cols) - 1), c) = 0
         THEN Len(cols)
    ELSE ColumnIndex(SubSeq(cols, 1, Len(cols) - 1), c)

\* the column names of the frames in order of first appearance
RECURSIVE UnionColumns(_)
UnionColumns(frames) ==
    IF Len(frames) = 0 THEN <<>>
    ELSE LET before == UnionColumns(SubSeq(frames, 1, Len(frames) - 1))
             NewCol(c) == ColumnIndex(before, c) = 0
         IN  before \o SelectSeq(frames[Len(frames)].columns, NewCol)

\* the rows of df laid out under the column names cols
RowsUnder(df, cols) ==
    [i \in 1..Len(df.rows) |->
        [j \in 1..Len(cols) |->
            LET k == ColumnIndex(df.columns, cols[j])
            IN  IF k = 0 THEN NaN ELSE df.rows[i][k]]]

RECURSIVE StackRows(_, _)
StackRows(frames, cols) ==
    IF Len(frames) = 0 THEN <<>>
    ELSE StackRows(SubSeq(frames, 1, Len(frames) - 1), cols)
            \o RowsUnder(frames[Len(frames)], cols)

\* pd.concat(frames, ignore_index=True): the rows one under the other
ConcatRows(frames) ==
    LET cols == UnionColumns(frames)
    IN  [columns |-> cols, rows |-> StackRows(frames, cols)]

RECURSIVE MaxLenRows(_)
MaxLenRows(frames) ==
    IF Len(frames) = 0 THEN 0
    ELSE Max(MaxLenRows(SubSeq(frames, 1, Len(frames) - 1)),
             Len(frames[Len(frames)].rows))

RECURSIVE JoinColumns(_)
JoinColumns(frames) ==
    IF Len(frames) = 0 THEN <<>>
    ELSE JoinColumns(SubSeq(frames, 1, Len(frames) - 1)) \o frames[Len(frames)].columns

RECURSIVE JoinRow(_, _)
JoinRow(frames, i) ==
    IF Len(frames) = 0 THEN <<>>
    ELSE LET df == frames[Len(frames)]
         IN  JoinRow(SubSeq(frames, 1, Len(frames) - 1), i)
                \o (IF i <= Len(df.rows) THEN df.rows[i]
                    ELSE CellsOf(NaN, Len(df.columns)))

\* pd.concat(frames, axis=1) of frames indexed 0..n-1: side by side, on the
\* union of the row indexes, NaN where a frame has no such row
ConcatColumns(frames) ==
    [columns |-> JoinColumns(frames),
     rows    |-> [i \in 1..MaxLenRows(frames) |-> JoinRow(frames, i)]]

(***************************************************************************)
(* pd.read_csv(filepath): what reading the file gives.  kind is "frame"    *)
(* (a data frame, possibly with a header and no rows), "empty_data"        *)
(* (pd.errors.EmptyDataError) or "error" (any other exception).            *)
(***************************************************************************)
read_csv(file) == file.data

\* pd.read_csv(filepath, nrows=0): the header of a file that was read
read_csv_header(file) == [columns |-> file.data.columns, rows |-> <<>>]

\* the files the search pattern matches, in the order glob lists them
GlobFiles(files) ==
    LET Matches(f) == GlobMatches(f.path)
    IN  SelectSeq(files, Matches)

(***************************************************************************)
(* compile_reports.compile_csv_reports                                     *)
(***************************************************************************)
\* the key with the trimester before the year
CompileSortKeyTrimesterFirst(x) == <<x.trimester, x.year, x.page>>

\* key=lambda x: (x['year'], x['trimester'], x['page'])
CompileSortKey(x) == <<x.year, x.trimester, x.page>>

\* f"{file_info['original_basename']}_p{file_info['page']}"
file_prefix(file_info) ==
    file_info.original_basename \o UnderscoreP \o IntToStr(file_info.page)

\* the loop body of lines 77-101: df and num_original_cols of one file
ReadDetail(file, file_info) ==
    LET got == read_csv(file)
    IN  IF got.kind = "frame"
        THEN LET df == [columns |-> got.columns, rows |-> got.rows]
             IN  [df        |-> df,
                  num_cols  |-> IF IsEmpty(df)
                                THEN (IF Len(read_csv_header(file).columns) > 0
                                      THEN Len(read_csv_header(file).columns)
                                      ELSE 1)
                                ELSE Len(df.columns),
                  file_info |-> file_info]
        ELSE [df |-> EmptyFrame, num_cols |-> 1, file_info |-> file_info]

\* max_rows as the row count of the last frame read instead of the largest
MaxRowsOfLast(details) ==
    IF Len(details) = 0 THEN 0 ELSE Len(details[Len(details)].df.rows)

\* max_rows after the reading loop
RECURSIVE MaxRowsOf(_)
MaxRowsOf(details) ==
    IF Len(details) = 0 THEN 0
    ELSE LET rest == MaxRowsOf(SubSeq(details, 1, Len(details) - 1))
             df   == details[Len(details)].df
         IN  IF ~IsEmpty(df) THEN Max(rest, Len(df.rows)) ELSE rest

\* the rows of current_df after lines 127-131
PadOrTruncate(df, max_rows) ==
    IF Len(df.rows) < max_rows
    THEN df.rows \o [i \in 1..(max_rows - Len(df.rows)) |-> CellsOf(NaN, Len(df.columns))]
    ELSE IF Len(df.rows) > max_rows THEN SubSeq(df.rows, 1, max_rows)
    ELSE df.rows

\* the loop body of lines 114-136: the padded frame of one file
PaddedFrame(item, max_rows) ==
    LET prefix == file_prefix(item.file_info)
    IN  IF IsEmpty(item.df)
        THEN [columns |-> [j \in 1..item.num_cols |->
                              prefix \o <<"_", "c", "o", "l">> \o IntToStr(j - 1)],
              rows    |-> [i \in 1..max_rows |-> CellsOf("", item.num_cols)]]
        ELSE FillNa([columns |-> [j \in 1..Len(item.df.columns) |->
                                     prefix \o <<"_">> \o item.df.columns[j]],
                     rows    |-> PadOrTruncate(item.df, max_rows)])

\* the whole function on the files of base_dir, in glob's order.  kind is
\* "none" (no output written), "empty" (an empty compiled report) or "table".
compile_csv_reports(files) ==
    LET all_csv_files == GlobFiles(files)
        Parses(f)     == parse_filename(f.path) # None
        parsable      == SelectSeq(all_csv_files, Parses)
        parsed_files  == SortByKeys(parsable,
                            [i \in 1..Len(parsable) |->
                                CompileSortKey(parse_filename(parsable[i].path))])
        details       == [i \in 1..Len(parsed_files) |->
                            ReadDetail(parsed_files[i],
                                       parse_filename(parsed_files[i].path))]
        max_rows      == MaxRowsOf(details)
        padded        == [i \in 1..Len(details) |-> PaddedFrame(details[i], max_rows)]
    IN  IF Len(all_csv_files) = 0 \/ Len(parsed_files) = 0
        THEN [kind |-> "none", blocks |-> <<>>, final_df |-> EmptyFrame]
        ELSE IF max_rows = 0
        THEN [kind |-> "empty", blocks |-> <<>>, final_df |-> EmptyFrame]
        ELSE [kind     |-> "table",
              blocks   |-> [i \in 1..Len(details) |->
                              [file  |-> parsed_files[i],
                               width |-> Len(padded[i].columns)]],
              final_df |-> ConcatColumns(padded)]

(***************************************************************************)
(* Excel workbooks: the sheets in the order they were created, each a grid *)
(* of cells.  df.to_excel(writer, sheet_name, index=False) writes the      *)
(* header and the rows from the top left cell, NaN as the empty cell; in a *)
(* writer opened for writing, a sheet of that name that exists already is  *)
(* written into, cell over cell, and otherwise a new sheet is added.       *)
(***************************************************************************)
SheetNameLimit == 31

\* sheet_name[:31]
TruncateSheetName(name) == SubSeq(name, 1, Min(Len(name), SheetNameLimit))

\* the cells to_excel writes for df: nothing for pd.DataFrame()
GridOf(df) ==
    IF Len(df.columns) = 0 THEN <<>>
    ELSE <<df.columns>> \o FillNa(df).rows

Overlay(old, new) ==
    [i \in 1..Max(Len(old), Len(new)) |->
        LET o == IF i <= Len(old) THEN old[i] ELSE <<>>
            n == IF i <= Len(new) THEN new[i] ELSE <<>>
        IN  [j \in 1..Max(Len(o), Len(n)) |-> IF j <= Len(n) THEN n[j] ELSE o[j]]]

RECURSIVE SheetIndex(_, _)
SheetIndex(sheets, name) ==
    IF Len(sheets) = 0 THEN 0
    ELSE IF sheets[Len(sheets)].name = name THEN Len(sheets)
    ELSE SheetIndex(SubSeq(sheets, 1, Len(sheets) - 1), name)

to_excel(sheets, df, sheet_name) ==
    LET k == SheetIndex(sheets, sheet_name)
    IN  IF k = 0 THEN Append(sheets, [name |-> sheet_name, grid |-> GridOf(df)])
        ELSE [sheets EXCEPT ![k].grid = Overlay(@, GridOf(df))]

(***************************************************************************)
(* csv_to_excel_by_page.create_excel_by_page                               *)
(***************************************************************************)
\* the key with the quarter before the year
sort_key_page_sheet_quarter_first(file_detail_item) ==
    LET match_trimester == TrimesterRegexMatch(file_detail_item.trimester_id)
    IN  <<StrToInt(<<match_trimester.group1[1]>>),
          StrToInt(match_trimester.group2),
          file_detail_item.page>>

\* sort_key_page_sheet
sort_key_page_sheet(file_detail_item) ==
    LET match_trimester == TrimesterRegexMatch(file_detail_item.trimester_id)
    IN  IF match_trimester # None
        THEN <<StrToInt(match_trimester.group2),
               StrToInt(<<match_trimester.group1[1]>>),
               file_detail_item.page>>
        ELSE <<9999, 9, file_detail_item.page>>

\* f"{trimester_id}_p{page}", cut to the length limit
PageSheetName(file_detail) ==
    TruncateSheetName(file_detail.trimester_id \o UnderscoreP \o IntToStr(file_detail.page))

\* pd.DataFrame([{'error': str(e)}])
ErrorFrame == [columns |-> <<<<"e", "r", "r", "o", "r">>>>, rows |-> <<<<"message">>>>]

\* f"ERR_{sheet_name}"[:31]
ErrorSheetName(sheet_name) == TruncateSheetName(<<"E", "R", "R", "_">> \o sheet_name)

\* the loop body of lines 76-106 for one file: the workbook and the log of
\* (file, sheet written) after it
WritePageSheet(book, file) ==
    LET file_detail == parse_filename_for_page_sheet(file.path)
        sheet_name  == PageSheetName(file_detail)
        got         == read_csv(file)
        df          == [columns |-> got.columns, rows |-> got.rows]
    IN  IF got.kind = "frame" /\ ~IsEmpty(df)
        THEN [sheets |-> to_excel(book.sheets, df, sheet_name),
              writes |-> Append(book.writes, [file |-> file, sheet |-> sheet_name])]
        ELSE IF got.kind = "frame" \/ got.kind = "empty_data"
        THEN [sheets |-> to_excel(book.sheets, EmptyFrame, sheet_name),
              writes |-> Append(book.writes, [file |-> file, sheet |-> sheet_name])]
        ELSE [sheets |-> to_excel(book.sheets, ErrorFrame, ErrorSheetName(sheet_name)),
              writes |-> Append(book.writes,
                                [file |-> file, sheet |-> ErrorSheetName(sheet_name)])]

RECURSIVE WritePageSheets(_)
WritePageSheets(files) ==
    IF Len(files) = 0 THEN [sheets |-> <<>>, writes |-> <<>>]
    ELSE WritePageSheet(WritePageSheets(SubSeq(files, 1, Len(files) - 1)),
                        files[Len(files)])

\* the whole function; kind is "none" (no workbook written) or "book"
create_excel_by_page(files) ==
    LET all_csv_files == GlobFiles(files)
        Parses(f)     == parse_filename_for_page_sheet(f.path) # None
        parsable      == SelectSeq(all_csv_files, Parses)
        parsed_file_details ==
            SortByKeys(parsable,
                       [i \in 1..Len(parsable) |->
                           sort_key_page_sheet(
                               parse_filename_for_page_sheet(parsable[i].path))])
        book          == WritePageSheets(parsed_file_details)
    IN  IF Len(all_csv_files) = 0 \/ Len(parsable) = 0
        THEN [kind |-> "none", sheets |-> <<>>, writes |-> <<>>]
        ELSE [kind |-> "book", sheets |-> book.sheets, writes |-> book.writes]

(***************************************************************************)
(* csv_to_excel_by_trimester.create_excel_by_trimester                     *)
(***************************************************************************)
\* sort_key_trimester
sort_key_trimester(trimester_id_key) ==
    LET match == TrimesterRegexMatch(trimester_id_key)
    IN  IF match # None
        THEN <<StrToInt(match.group2), StrToInt(<<match.group1[1]>>)>>
        ELSE <<9999, 9>>

\* the pages of a trimester left in the order glob listed them
TrimesterPageKeyUnsorted(x) == <<0>>

\* key=lambda x: x['page']
TrimesterPageKey(x) == <<x.page>>

\* trimester_grouped_files.keys(): the ids in the order they first appear
RECURSIVE GroupKeys(_)
GroupKeys(files) ==
    IF Len(files) = 0 THEN <<>>
    ELSE LET before == GroupKeys(SubSeq(files, 1, Len(files) - 1))
             id     == parse_filename_for_trimester_sheet(files[Len(files)].path).trimester_id
             Same(x) == x = id
         IN  IF Len(SelectSeq(before, Same)) = 0 THEN Append(before, id) ELSE before

\* trimester_grouped_files[trimester_id], sorted by page
files_for_trimester(files, trimester_id) ==
    LET InGroup(f) ==
            parse_filename_for_trimester_sheet(f.path).trimester_id = trimester_id
        group == SelectSeq(files, InGroup)
    IN  SortByKeys(group,
                   [i \in 1..Len(group) |->
                       TrimesterPageKey(parse_filename_for_trimester_sheet(group[i].path))])

\* the files of the group whose frame was read and is not empty (lines 88-99)
ReadableFiles(group) ==
    LET Kept(f) == /\ read_csv(f).kind = "frame"
                   /\ ~IsEmpty([columns |-> read_csv(f).columns, rows |-> read_csv(f).rows])
    IN  SelectSeq(group, Kept)

\* the loop body of lines 80-114 for one trimester
WriteTrimesterSheet(book, files, trimester_id) ==
    LET kept   == ReadableFiles(files_for_trimester(files, trimester_id))
        trimester_dataframes ==
            [i \in 1..Len(kept) |->
                [columns |-> read_csv(kept[i]).columns, rows |-> read_csv(kept[i]).rows]]
        combined_trimester_df == ConcatRows(trimester_dataframes)
        sheet_name == TruncateSheetName(trimester_id)
    IN  IF Len(kept) = 0 THEN book
        ELSE [sheets |-> to_excel(book.sheets, combined_trimester_df, sheet_name),
              groups |-> Append(book.groups,
                                [trimester_id |-> trimester_id,
                                 sheet        |-> sheet_name,
                                 parts        |-> kept,
                                 df           |-> combined_trimester_df])]

RECURSIVE WriteTrimesterSheets(_, _)
WriteTrimesterSheets(files, ids) ==
    IF Len(ids) = 0 THEN [sheets |-> <<>>, groups |-> <<>>]
    ELSE WriteTrimesterSheet(WriteTrimesterSheets(files, SubSeq(ids, 1, Len(ids) - 1)),
                             files, ids[Len(ids)])

\* the whole function; kind is "none" (no workbook written) or "book"
create_excel_by_trimester(files) ==
    LET all_csv_files == GlobFiles(files)
        Parses(f)     == parse_filename_for_trimester_sheet(f.path) # None
        parsed_file_details == SelectSeq(all_csv_files, Parses)
        keys          == GroupKeys(parsed_file_details)
        sorted_trimester_ids ==
            SortByKeys(keys, [i \in 1..Len(keys) |-> sort_key_trimester(keys[i])])
        book          == WriteTrimesterSheets(parsed_file_details, sorted_trimester_ids)
    IN  IF Len(all_csv_files) = 0 \/ Len(parsed_file_details) = 0
        THEN [kind |-> "none", sheets |-> <<>>, groups |-> <<>>]
        ELSE [kind |-> "book", sheets |-> book.sheets, groups |-> book.groups]

(***************************************************************************)
(* docling_excel_extractor.convert_markdown_to_csv                         *)
(***************************************************************************)
AllNaN(cells) == \A j \in 1..Len(cells) : cells[j] = NaN

\* df.dropna(how='all', axis=0)
DropNaRows(df) ==
    LET Kept(row) == ~AllNaN(row)
    IN  [columns |-> df.columns, rows |-> SelectSeq(df.rows, Kept)]

\* the positions of the columns of df that are not all NaN, in order
RECURSIVE KeptColumns(_, _)
KeptColumns(df, n) ==
    IF n = 0 THEN <<>>
    ELSE LET before == KeptColumns(df, n - 1)
         IN  IF \A i \in 1..Len(df.rows) : df.rows[i][n] = NaN
             THEN before ELSE Append(before, n)

\* df.dropna(how='all', axis=1)
DropNaColumns(df) ==
    LET keep == KeptColumns(df, Len(df.columns))
    IN  [columns |-> [j \in 1..Len(keep) |-> df.columns[keep[j]]],
         rows    |-> [i \in 1..Len(df.rows) |->
                        [j \in 1..Len(keep) |-> df.rows[i][keep[j]]]]]

\* lines 55-59: the copy of a table with its all-NaN rows, then its all-NaN
\* columns dropped
CleanTable(df) == DropNaColumns(DropNaRows(df))

\* pd.DataFrame([{}]): one row, no column
BlankRow == [columns |-> <<>>, rows |-> <<<<>>>>]

\* lines 82-86 with a blank row behind every table, the last one too
RECURSIVE WithSeparatorsTrailing(_)
WithSeparatorsTrailing(tables) ==
    IF Len(tables) = 0 THEN <<>>
    ELSE WithSeparatorsTrailing(SubSeq(tables, 1, Len(tables) - 1))
            \o <<tables[Len(tables)], BlankRow>>

\* lines 82-86: tables_to_concat_with_separators
tables_to_concat_with_separators(tables) ==
    LET n == Len(tables)
        Piece(k) == IF k < n THEN <<tables[k], BlankRow>> ELSE <<tables[k]>>
        Pieces[k \in 0..n] == IF k = 0 THEN <<>> ELSE Pieces[k - 1] \o Piece(k)
    IN  Pieces[n]

\* lines 54-70: the numbers i+1 of the tables that are not empty after cleaning
\* (each saved as table_{i+1}.csv), in order
RECURSIVE SavedTables(_, _)
SavedTables(dfs, n) ==
    IF n = 0 THEN <<>>
    ELSE IF IsEmpty(CleanTable(dfs[n])) THEN SavedTables(dfs, n - 1)
    ELSE Append(SavedTables(dfs, n - 1), n)

\* what a call returns and leaves on disk
ConvertOutcome(ret, saved, name, wrote, df) ==
    [ret        |-> ret,
     tables     |-> saved,
     all_name   |-> name,
     wrote_all  |-> wrote,
     all_tables |-> df]

\* The whole function.  md_exists: the Markdown file exists; dfs: its tables;
\* fault: "none", "read" (reading or parsing the Markdown raises, ImportError
\* included) or "save" (writing the all-tables CSV raises).  pd.read_html
\* raises ValueError when the document holds no table.
convert_markdown_to_csv(md_exists, dfs, fault, pdf_basename, page_number) ==
    LET saved   == SavedTables(dfs, Len(dfs))
        cleaned_and_saved_tables == [k \in 1..Len(saved) |-> CleanTable(dfs[saved[k]])]
        final_df_to_save ==
            IF Len(cleaned_and_saved_tables) = 1 THEN cleaned_and_saved_tables[1]
            ELSE ConcatRows(tables_to_concat_with_separators(cleaned_and_saved_tables))
        name    == concatenated_csv_name(pdf_basename, page_number)
    IN  IF ~md_exists THEN ConvertOutcome(FALSE, <<>>, name, FALSE, EmptyFrame)
        ELSE IF fault = "read" \/ Len(dfs) = 0
        THEN ConvertOutcome(FALSE, <<>>, name, FALSE, EmptyFrame)
        ELSE IF Len(cleaned_and_saved_tables) = 0
        THEN ConvertOutcome(TRUE, saved, name, FALSE, EmptyFrame)
        ELSE IF fault = "save"
        THEN ConvertOutcome(FALSE, saved, name, FALSE, EmptyFrame)
        ELSE ConvertOutcome(TRUE, saved, name, TRUE, final_df_to_save)

(***************************************************************************)
(* The tables a page's Markdown may hold: with data in every cell, with an *)
(* all-NaN row, with an all-NaN column, with NaN only, with a header only. *)
(***************************************************************************)
TableFull == [columns |-> <<<<"a">>, <<"b">>>>, rows |-> <<<<"t1", "t2">>>>]

TableGapRow == [columns |-> <<<<"c">>>>, rows |-> <<<<"v1">>, <<NaN>>, <<"v2">>>>]

TableGapColumn == [columns |-> <<<<"a">>, <<"d">>>>, rows |-> <<<<"u1", NaN>>, <<"u2", NaN>>>>]

TableOnlyNaN == [columns |-> <<<<"a">>>>, rows |-> <<<<NaN>>>>]

TableHeaderOnly == [columns |-> <<<<"a">>>>, rows |-> <<>>]

TablePool == {TableFull, TableGapRow, TableGapColumn, TableOnlyNaN, TableHeaderOnly}

TableLists == UNION { [1..n -> TablePool] : n \in 0..MaxTables }

Faults == {"none", "read", "save"}

NoOutcome == [ret |-> "pending"]

ConvIdle ==
    /\ c_pc = "idle"
    /\ c_exists = FALSE
    /\ c_dfs = <<>>
    /\ c_result = NoOutcome
    /\ c_fault = "none"

(***************************************************************************)
(* docling_excel_extractor: the batch loop of __main__ and                 *)
(* extract_text_and_tables_via_ocr_with_docling.                           *)
(***************************************************************************)
\* pdfs_to_process, in the order of the dict
pdfs_to_process ==
    << [name |-> <<"1", "T", "2", "5", ".", "p", "d", "f">>, pages |-> <<39, 40>>],
       [name |-> <<"1", "T", "2", "4", ".", "p", "d", "f">>, pages |-> <<39, 40>>],
       [name |-> <<"2", "T", "2", "4", ".", "p", "d", "f">>, pages |-> <<38, 39>>],
       [name |-> <<"3", "T", "2", "4", ".", "p", "d", "f">>, pages |-> <<43, 44>>],
       [name |-> <<"4", "T", "2", "4", ".", "p", "d", "f">>, pages |-> <<61, 62, 63, 64>>],
       [name |-> <<"1", "T", "2", "3", ".", "p", "d", "f">>, pages |-> <<38, 39>>],
       [name |-> <<"2", "T", "2", "3", ".", "p", "d", "f">>, pages |-> <<35, 36>>],
       [name |-> <<"3", "T", "2", "3", ".", "p", "d", "f">>, pages |-> <<35, 36>>],
       [name |-> <<"4", "T", "2", "3", ".", "p", "d", "f">>, pages |-> <<56, 57, 58, 59>>],
       [name |-> <<"1", "T", "2", "2", ".", "p", "d", "f">>, pages |-> <<46, 47, 48, 49>>],
       [name |-> <<"2", "T", "2", "2", ".", "p", "d", "f">>, pages |-> <<66, 67, 68, 69>>],
       [name |-> <<"3", "T", "2", "2", ".", "p", "d", "f">>, pages |-> <<47, 48, 49, 50>>],
       [name |-> <<"4", "T", "2", "2", ".", "p", "d", "f">>, pages |-> <<66, 67, 68, 69>>] >>

\* the entries of pdfs_to_process the model runs the batch on
Config == SubSeq(pdfs_to_process, 1, Min(MaxPdfs, Len(pdfs_to_process)))

\* what docling_doc.export_to_markdown() may hold: no table, one table,
\* several tables with an empty one among them
MarkdownPool == { <<>>, <<TableFull>>, <<TableGapRow, TableOnlyNaN, TableFull>> }

\* an exception that no except clause catches ends the script
OnExceptionPropagates == "crashed"

\* where control goes when a statement of the try block raises an exception
\* that an except clause catches: the clause logs and returns, through finally
OnException == "finally"

\* an except clause that logs and does not return
ExceptClauseFallsThrough == "fall"

\* lines 183-191: how the try block is left when an except clause has caught
\* the exception: each clause logs and returns
ExceptClauseExit == "return"

ExtIdle ==
    /\ e_pc = "idle"
    /\ e_i = 0
    /\ e_j = 0
    /\ e_present = {}
    /\ e_deleted = {}
    /\ e_attempts = <<>>
    /\ e_failed_at = 0
    /\ e_temp = "none"
    /\ e_temp_path = FALSE
    /\ e_generated = FALSE
    /\ e_exit = "fall"
    /\ e_md = <<>>
    /\ e_conv = NoOutcome
    /\ e_steps = <<>>

(***************************************************************************)
(* The files of batch_processing_output the aggregation scripts may find:  *)
(* all-tables CSVs of several trimesters and pages, one unreadable, one    *)
(* without data, one with a header only, a copy of a page in another       *)
(* directory, a report that is no trimester, and a single-table CSV.       *)
(***************************************************************************)
Frame2x2 ==
    [kind |-> "frame", columns |-> <<<<"a">>, <<"b">>>>,
     rows |-> <<<<"x1", NaN>>, <<"x2", "y2">>>>]

Frame1x1 == [kind |-> "frame", columns |-> <<<<"c">>>>, rows |-> <<<<"z1">>>>]

Frame3x1 ==
    [kind |-> "frame", columns |-> <<<<"a">>>>, rows |-> <<<<"w1">>, <<"w2">>, <<"w3">>>>]

HeaderOnly == [kind |-> "frame", columns |-> <<<<"a">>, <<"b">>>>, rows |-> <<>>]

EmptyData == [kind |-> "empty_data", columns |-> <<>>, rows |-> <<>>]

ReadError == [kind |-> "error", columns |-> <<>>, rows |-> <<>>]

FilePool ==
    { [path |-> [dir |-> <<"c", "s", "v", "_", "1", "T", "2", "2", "_", "p", "9">>,
                 name |-> <<"1", "T", "2", "2", "_", "p", "9", "_", "a", "l", "l", "_", "t", "a", "b", "l", "e", "s", ".", "c", "s", "v">>],
       data |-> Frame2x2],
      [path |-> [dir |-> <<"c", "s", "v", "_", "1", "T", "2", "2", "_", "p", "1", "0">>,
                 name |-> <<"1", "T", "2", "2", "_", "p", "1", "0", "_", "a", "l", "l", "_", "t", "a", "b", "l", "e", "s", ".", "c", "s", "v">>],
       data |-> Frame1x1],
      [path |-> [dir |-> <<"c", "s", "v", "_", "4", "T", "2", "1", "_", "p", "9">>,
                 name |-> <<"4", "T", "2", "1", "_", "p", "9", "_", "a", "l", "l", "_", "t", "a", "b", "l", "e", "s", ".", "c", "s", "v">>],
       data |-> Frame3x1],
      [path |-> [dir |-> <<"c", "s", "v", "_", "2", "T", "2", "2", "_", "p", "3">>,
                 name |-> <<"2", "T", "2", "2", "_", "p", "3", "_", "a", "l", "l", "_", "t", "a", "b", "l", "e", "s", ".", "c", "s", "v">>],
       data |-> EmptyData],
      [path |-> [dir |-> <<"c", "s", "v", "_", "1", "T", "2", "3", "_", "p", "1">>,
                 name |-> <<"1", "T", "2", "3", "_", "p", "1", "_", "a", "l", "l", "_", "t", "a", "b", "l", "e", "s", ".", "c", "s", "v">>],
       data |-> ReadError],
      [path |-> [dir |-> <<"c", "s", "v", "_", "o", "l", "d">>,
                 name |-> <<"1", "T", "2", "2", "_", "p", "9", "_", "a", "l", "l", "_", "t", "a", "b", "l", "e", "s", ".", "c", "s", "v">>],
       data |-> Frame1x1],
      [path |-> [dir |-> <<"c", "s", "v", "_", "r", "e", "p", "o", "r", "t", "_", "p", "2">>,
                 name |-> <<"r", "e", "p", "o", "r", "t", "_", "p", "2", "_", "a", "l", "l", "_", "t", "a", "b", "l", "e", "s", ".", "c", "s", "v">>],
       data |-> Frame2x2],
      [path |-> [dir |-> <<"c", "s", "v", "_", "1", "T", "2", "2", "_", "p", "9">>,
                 name |-> <<"t", "a", "b", "l", "e", "_", "1", ".", "c", "s", "v">>],
       data |-> Frame1x1],
      [path |-> [dir |-> <<"c", "s", "v", "_", "3", "T", "2", "1", "_", "p", "5">>,
                 name |-> <<"3", "T", "2", "1", "_", "p", "5", "_", "a", "l", "l", "_", "t", "a", "b", "l", "e", "s", ".", "c", "s", "v">>],
       data |-> HeaderOnly] }

\* the listings of at most MaxFiles files, no path twice
Listings ==
    { s \in UNION { [1..n -> FilePool] : n \in 0..MaxFiles } :
        \A i, j \in 1..Len(s) : i # j => s[i].path # s[j].path }

Pending == [kind |-> "pending"]

AggIdle ==
    /\ disk = <<>>
    /\ compiled = Pending
    /\ page_book = Pending
    /\ trimester_book = Pending

(***************************************************************************)
(* File naming.  The extractor writes the all-tables CSV of a PDF page     *)
(* (or some other file lies in the output directory); an aggregator's      *)
(* search looks at the path and its parser at the base name.               *)
(***************************************************************************)
\* keys of pdfs_to_process
PdfNames ==
    { <<"1", "T", "2", "5", ".", "p", "d", "f">>,
      <<"4", "T", "2", "2", ".", "p", "d", "f">>,
      <<"2", "T", "2", "0", "2", "4", ".", "p", "d", "f">>,
      <<"5", "T", "2", "2", ".", "p", "d", "f">>,
      <<"1", "T", "2", ".", "p", "d", "f">>,
      <<"r", "e", "p", "o", "r", "t", ".", "p", "d", "f">>,
      <<"1", "T", "2", "2", ".", "v", "2", ".", "p", "d", "f">>,
      <<"1", "T", "2", "2", "_", "p", "3", ".", "p", "d", "f">>,
      <<"1", "T", "2", "2", "_", "p", "3", "_", "a", "l", "l", "_", "t", "a", "b", "l", "e", "s", ".", "c", "s", "v", ".", "p", "d", "f">> }

\* other files under batch_processing_output
OtherFiles ==
    { [dir |-> <<"c", "s", "v", "_", "1", "T", "2", "2", "_", "p", "0", "4", "6">>,
       name |-> <<"1", "T", "2", "2", "_", "p", "0", "4", "6", "_", "a", "l", "l", "_", "t", "a", "b", "l", "e", "s", ".", "c", "s", "v">>],
      [dir |-> <<"c", "s", "v", "_", "1", "T", "0", "2", "2", "_", "p", "7">>,
       name |-> <<"1", "T", "0", "2", "2", "_", "p", "7", "_", "a", "l", "l", "_", "t", "a", "b", "l", "e", "s", ".", "c", "s", "v">>],
      [dir |-> <<"c", "s", "v", "_", "o", "l", "d">>,
       name |-> <<"1", "T", "2", "2", "_", "p", "4", "6", "_", "a", "l", "l", "_", "t", "a", "b", "l", "e", "s", ".", "c", "s", "v", ".", "b", "a", "k">>],
      [dir |-> <<"c", "s", "v", "_", "o", "l", "d">>,
       name |-> <<"1", "T", "2", "2", "_", "p", "4", "6", "_", "a", "l", "l", "_", "t", "a", "b", "l", "e", "s", ".", "c", "s", "v", ".", "b", "a", "k", "_", "a", "l", "l", "_", "t", "a", "b", "l", "e", "s", ".", "c", "s", "v">>],
      [dir |-> <<"c", "s", "v", "_", "o", "l", "d">>,
       name |-> <<"x", "1", "T", "2", "2", "_", "p", "4", "6", "_", "a", "l", "l", "_", "t", "a", "b", "l", "e", "s", ".", "c", "s", "v">>],
      [dir |-> <<"c", "s", "v", "_", "o", "l", "d">>,
       name |-> <<"1", "T", "2", "2", "_", "p", "4", "6", "_", "a", "l", "l", "_", "t", "a", "b", "l", "e", "s", "X", "c", "s", "v">>],
      [dir |-> <<"c", "s", "v", "_", "o", "l", "d">>,
       name |-> <<"1", "T", "2", "2", "_", "p", "_", "a", "l", "l", "_", "t", "a", "b", "l", "e", "s", ".", "c", "s", "v">>],
      [dir |-> <<"c", "s", "v", "_", "o", "l", "d">>,
       name |-> <<"1", "t", "2", "2", "_", "p", "4", "6", "_", "a", "l", "l", "_", "t", "a", "b", "l", "e", "s", ".", "c", "s", "v">>],
      [dir |-> <<"c", "s", "v", "_", "1", "T", "2", "2", "_", "p", "4", "6">>,
       name |-> <<"t", "a", "b", "l", "e", "_", "1", ".", "c", "s", "v">>],
      [dir |-> <<"o", "u", "t">>,
       name |-> <<"1", "T", "2", "2", "_", "p", "4", "6", "_", "a", "l", "l", "_", "t", "a", "b", "l", "e", "s", ".", "c", "s", "v">>],
      [dir |-> <<"c", "s", "v", "_", ".", "1", "T", "2", "2", "_", "p", "4">>,
       name |-> <<".", "1", "T", "2", "2", "_", "p", "4", "_", "a", "l", "l", "_", "t", "a", "b", "l", "e", "s", ".", "c", "s", "v">>] }

NamesInit ==
    /\ n_pc = "start"
    /\ n_dir = <<>>
    /\ n_file = <<>>
    /\ n_stem = <<>>
    /\ n_page = 0
    /\ n_found = FALSE
    /\ n_parsed = None
    /\ n_page_parsed = None
    /\ n_trim_parsed = None

\* docling_excel_extractor: the names of one (PDF, page) of the batch loop
WriteAllTables ==
    /\ n_pc = "start"
    /\ \E pdf \in PdfNames, page \in 1..MaxPage :
          LET pdf_basename == Stem(pdf)
          IN  /\ n_stem' = pdf_basename
              /\ n_page' = page
              /\ n_dir' = csv_output_subdir_name(pdf_basename, page)
              /\ n_file' = concatenated_csv_name(pdf_basename, page)
    /\ n_pc' = "written"
    /\ UNCHANGED <<n_found, n_parsed, n_page_parsed, n_trim_parsed>>
    /\ UNCHANGED <<aggVars, convVars, extVars>>

\* a file that the extractor did not write
PlaceFile ==
    /\ n_pc = "start"
    /\ \E f \in OtherFiles : n_dir' = f.dir /\ n_file' = f.name
    /\ n_pc' = "written"
    /\ UNCHANGED <<n_stem, n_page, n_found, n_parsed, n_page_parsed, n_trim_parsed>>
    /\ UNCHANGED <<aggVars, convVars, extVars>>

\* glob.glob(search_pattern) of an aggregator
Search ==
    /\ n_pc = "written"
    /\ n_found' = GlobMatches([dir |-> n_dir, name |-> n_file])
    /\ n_pc' = "searched"
    /\ UNCHANGED <<n_dir, n_file, n_stem, n_page, n_parsed, n_page_parsed, n_trim_parsed>>
    /\ UNCHANGED <<aggVars, convVars, extVars>>

\* the three parsers applied to the path
ParseFilename ==
    /\ n_pc = "searched"
    /\ LET filepath == [dir |-> n_dir, name |-> n_file]
       IN  /\ n_parsed' = parse_filename(filepath)
           /\ n_page_parsed' = parse_filename_for_page_sheet(filepath)
           /\ n_trim_parsed' = parse_filename_for_trimester_sheet(filepath)
    /\ n_pc' = "parsed"
    /\ UNCHANGED <<n_dir, n_file, n_stem, n_page, n_found>>
    /\ UNCHANGED <<aggVars, convVars, extVars>>

NamesNext == WriteAllTables \/ PlaceFile \/ Search \/ ParseFilename

InitNames == NamesInit /\ AggIdle /\ ConvIdle /\ ExtIdle

SpecNames == InitNames /\ [][NamesNext]_vars

(***************************************************************************)
(* The forms the file names are said to have, stated on the whole string.  *)
(***************************************************************************)
AllDigits(s) == \A k \in 1..Len(s) : s[k] \in Digits

\* <q>T<yy>: q in 1..4, yy two or more digits
IsTrimesterId(s) ==
    /\ Len(s) >= 4
    /\ s[1] \in {"1", "2", "3", "4"}
    /\ s[2] = "T"
    /\ AllDigits(SubSeq(s, 3, Len(s)))

\* s is <q>T<yy>_p<n>_all_tables.csv with yy of a digits and n of b digits
IsAllTablesNameWith(s, a, b) ==
    /\ a >= 2
    /\ b >= 1
    /\ Len(s) = 2 + a + 2 + b + Len(AllTablesCsv)
    /\ IsTrimesterId(SubSeq(s, 1, 2 + a))
    /\ SubSeq(s, 3 + a, 4 + a) = UnderscoreP
    /\ AllDigits(SubSeq(s, 5 + a, 4 + a + b))
    /\ SubSeq(s, 5 + a + b, Len(s)) = AllTablesCsv

IsAllTablesName(s) ==
    \E a \in 2..Len(s) : \E b \in 1..Len(s) : IsAllTablesNameWith(s, a, b)

\* the record the name <q>T<yy>_p<n>_all_tables.csv stands for
RecordOfName(filepath) ==
    LET s == filepath.name
        a == CHOOSE x \in 2..Len(s) : \E b \in 1..Len(s) : IsAllTablesNameWith(s, x, b)
        b == CHOOSE x \in 1..Len(s) : IsAllTablesNameWith(s, a, x)
    IN  [filepath          |-> filepath,
         year              |-> StrToInt(SubSeq(s, 3, 2 + a)),
         trimester         |-> DigitVal(s[1]),
         page              |-> StrToInt(SubSeq(s, 5 + a, 4 + a + b)),
         original_basename |-> SubSeq(s, 1, 2 + a)]

(***************************************************************************)
(* C2: parse_filename returns a record exactly when the base name has the  *)
(* form <q>T<yy>_p<n>_all_tables.csv, and then the record holds            *)
(* trimester q, year int(yy), page int(n) and original_basename <q>T<yy>;  *)
(* for every other base name it returns None.                              *)
(***************************************************************************)
C2_ParseExactlyTheForm ==
    n_pc = "parsed" =>
        LET filepath == [dir |-> n_dir, name |-> n_file]
        IN  IF IsAllTablesName(n_file)
            THEN n_parsed = RecordOfName(filepath)
            ELSE n_parsed = None

(***************************************************************************)
(* C3: the all-tables CSV the extractor writes for page p of a PDF whose   *)
(* base name is <q>T<yy> is matched by the aggregators' search and parses  *)
(* back to the same base name and the same page; that of a PDF with any    *)
(* other base name is matched by the search and rejected by the parsers.   *)
(***************************************************************************)
C3_ExtractorOutputIsAggregatorInput ==
    (n_pc = "parsed" /\ n_stem # <<>>) =>
        /\ n_found
        /\ IF IsTrimesterId(n_stem)
           THEN /\ n_parsed # None
                /\ n_parsed.original_basename = n_stem
                /\ n_parsed.page = n_page
                /\ n_page_parsed # None
                /\ n_page_parsed.trimester_id = n_stem
                /\ n_page_parsed.page = n_page
                /\ n_trim_parsed # None
                /\ n_trim_parsed.trimester_id = n_stem
                /\ n_trim_parsed.page = n_page
           ELSE /\ n_parsed = None
                /\ n_page_parsed = None
                /\ n_trim_parsed = None

(***************************************************************************)
(* The aggregation scripts, each run once, in any order, on the same       *)
(* directory.                                                              *)
(***************************************************************************)
\* No script changes the directory the three of them read, so the order of the
\* runs does not matter: the model runs them in the order given here.
Init ==
    /\ NamesInit
    /\ ConvIdle
    /\ ExtIdle
    /\ disk \in Listings
    /\ compiled = Pending
    /\ page_book = Pending
    /\ trimester_book = Pending

\* python compile_reports.py
RunCompileReports ==
    /\ compiled = Pending
    /\ compiled' = compile_csv_reports(disk)
    /\ UNCHANGED <<disk, page_book, trimester_book>>
    /\ UNCHANGED <<nameVars, convVars, extVars>>

\* python csv_to_excel_by_page.py
RunExcelByPage ==
    /\ compiled # Pending
    /\ page_book = Pending
    /\ page_book' = create_excel_by_page(disk)
    /\ UNCHANGED <<disk, compiled, trimester_book>>
    /\ UNCHANGED <<nameVars, convVars, extVars>>

\* python csv_to_excel_by_trimester.py
RunExcelByTrimester ==
    /\ page_book # Pending
    /\ trimester_book = Pending
    /\ trimester_book' = create_excel_by_trimester(disk)
    /\ UNCHANGED <<disk, compiled, page_book>>
    /\ UNCHANGED <<nameVars, convVars, extVars>>

Next == RunCompileReports \/ RunExcelByPage \/ RunExcelByTrimester

Spec == Init /\ [][Next]_vars

(***************************************************************************)
(* What the claims about the aggregation scripts speak of.                 *)
(***************************************************************************)
\* the files of the directory that the search finds and the parser accepts
ParsedFiles ==
    { disk[i] : i \in { k \in 1..Len(disk) :
                          /\ GlobMatches(disk[k].path)
                          /\ parse_filename(disk[k].path) # None } }

\* the number of data rows of a CSV: none when it cannot be read
DataRows(f) == IF f.data.kind = "frame" THEN Len(f.data.rows) ELSE 0

\* a CSV that is empty or fails to be read
IsEmptyOrUnreadable(f) == DataRows(f) = 0

\* (year, trimester, page) of f is smaller than that of g
KeyBefore(f, g) ==
    LET a == parse_filename(f.path)
        b == parse_filename(g.path)
    IN  \/ a.year < b.year
        \/ a.year = b.year /\ a.trimester < b.trimester
        \/ a.year = b.year /\ a.trimester = b.trimester /\ a.page < b.page

\* the place of file f in the directory listing
RECURSIVE ListingIndex(_, _)
ListingIndex(files, f) ==
    IF Len(files) = 0 THEN 0
    ELSE IF files[Len(files)] = f THEN Len(files)
    ELSE ListingIndex(SubSeq(files, 1, Len(files) - 1), f)

RECURSIVE WidthBefore(_, _)
WidthBefore(blocks, k) ==
    IF k <= 1 THEN 0 ELSE WidthBefore(blocks, k - 1) + blocks[k - 1].width

\* the first and the last column of block k in the compiled table
BlockFirst(k) == WidthBefore(compiled.blocks, k) + 1

BlockLast(k) == WidthBefore(compiled.blocks, k) + compiled.blocks[k].width

\* the cells of row i of the compiled table that lie in block k
BlockRow(k, i) == SubSeq(compiled.final_df.rows[i], BlockFirst(k), BlockLast(k))

\* the compiled table is made of one block per parsed file, each of its
\* columns named after the file
BlocksAreTheParsedFiles ==
    /\ Len(compiled.blocks) = Cardinality(ParsedFiles)
    /\ \A f \in ParsedFiles : \E k \in 1..Len(compiled.blocks) : compiled.blocks[k].file = f
    /\ Len(compiled.final_df.columns) = WidthBefore(compiled.blocks, Len(compiled.blocks) + 1)
    /\ \A k \in 1..Len(compiled.blocks) :
          /\ compiled.blocks[k].width >= 1
          /\ \A c \in BlockFirst(k)..BlockLast(k) :
                StartsWith(compiled.final_df.columns[c],
                           file_prefix(parse_filename(compiled.blocks[k].file.path))
                              \o <<"_">>)

(***************************************************************************)
(* C1: in the compiled CSV the blocks of the parsed files stand side by    *)
(* side in ascending order of (year, trimester, page): when the key of     *)
(* file A is smaller than that of file B, every column of A's block lies   *)
(* to the left of every column of B's block.                               *)
(***************************************************************************)
C1_BlocksInKeyOrder ==
    compiled.kind = "table" =>
        /\ BlocksAreTheParsedFiles
        /\ \A i, j \in 1..Len(compiled.blocks) :
              KeyBefore(compiled.blocks[i].file, compiled.blocks[j].file)
                  => BlockLast(i) < BlockFirst(j)

\* three blocks, two of them listed by glob in the opposite order
C1_Witness ==
    /\ compiled.kind = "table"
    /\ Len(compiled.blocks) = 3
    /\ \E i, j \in 1..Len(compiled.blocks) :
          /\ KeyBefore(compiled.blocks[i].file, compiled.blocks[j].file)
          /\ ListingIndex(disk, compiled.blocks[i].file)
                > ListingIndex(disk, compiled.blocks[j].file)

(***************************************************************************)
(* C4: when a parsed CSV has data rows, every block of the compiled table  *)
(* has max_rows rows, the largest number of data rows of a parsed CSV: the *)
(* rows of the file, all of them and in order, at the top, and the empty   *)
(* string in every cell below.                                             *)
(***************************************************************************)
LargestDataRows ==
    CHOOSE n \in 0..1000 :
        /\ \A f \in ParsedFiles : DataRows(f) <= n
        /\ n = 0 \/ \E f \in ParsedFiles : DataRows(f) = n

C4_BlocksPaddedToMaxRows ==
    (compiled # Pending /\ \E f \in ParsedFiles : DataRows(f) > 0) =>
        /\ compiled.kind = "table"
        /\ BlocksAreTheParsedFiles
        /\ Len(compiled.final_df.rows) = LargestDataRows
        /\ \A k \in 1..Len(compiled.blocks) :
              LET f == compiled.blocks[k].file
              IN  /\ DataRows(f) > 0 => compiled.blocks[k].width = Len(f.data.columns)
                  /\ \A i \in 1..LargestDataRows :
                        IF i <= DataRows(f)
                        THEN BlockRow(k, i) =
                                [j \in 1..Len(f.data.columns) |->
                                    IF f.data.rows[i][j] = NaN THEN ""
                                    ELSE f.data.rows[i][j]]
                        ELSE BlockRow(k, i) = CellsOf("", compiled.blocks[k].width)

\* a block of fewer rows than max_rows, one of max_rows, and one without data
C4_Witness ==
    /\ compiled.kind = "table"
    /\ \E a, b, c \in 1..Len(compiled.blocks) :
          /\ DataRows(compiled.blocks[a].file) > 0
          /\ DataRows(compiled.blocks[a].file) < DataRows(compiled.blocks[b].file)
          /\ DataRows(compiled.blocks[c].file) = 0

(***************************************************************************)
(* C5: create_excel_by_page gives each parsed CSV a sheet of its own: no   *)
(* two parsed CSV files found by the search are written to the same sheet  *)
(* name.                                                                   *)
(***************************************************************************)
C5_OneSheetPerFile ==
    page_book.kind = "book" =>
        \A i, j \in 1..Len(page_book.writes) :
            i # j => page_book.writes[i].sheet # page_book.writes[j].sheet

(***************************************************************************)
(* C6: create_excel_by_page writes the sheets in ascending order of        *)
(* (year, quarter, page) of the file each sheet comes from: every parsed   *)
(* file is written once, and the sheet of a file with a smaller key stands *)
(* before the sheet of a file with a larger key.                           *)
(***************************************************************************)
C6_SheetsInKeyOrder ==
    page_book.kind = "book" =>
        /\ Len(page_book.writes) = Cardinality(ParsedFiles)
        /\ \A f \in ParsedFiles :
              \E k \in 1..Len(page_book.writes) : page_book.writes[k].file = f
        /\ \A k \in 1..Len(page_book.sheets) :
              \E i \in 1..Len(page_book.writes) :
                  page_book.writes[i].sheet = page_book.sheets[k].name
        /\ \A i, j \in 1..Len(page_book.writes) :
              KeyBefore(page_book.writes[i].file, page_book.writes[j].file) =>
                  /\ i < j
                  /\ SheetIndex(page_book.sheets, page_book.writes[i].sheet) > 0
                  /\ SheetIndex(page_book.sheets, page_book.writes[i].sheet)
                        < SheetIndex(page_book.sheets, page_book.writes[j].sheet)

\* three sheets, two of them of files glob listed in the opposite order
C6_Witness ==
    /\ page_book.kind = "book"
    /\ Len(page_book.sheets) = 3
    /\ \E i, j \in 1..Len(page_book.writes) :
          /\ KeyBefore(page_book.writes[i].file, page_book.writes[j].file)
          /\ ListingIndex(disk, page_book.writes[i].file)
                > ListingIndex(disk, page_book.writes[j].file)

(***************************************************************************)
(* C7: create_excel_by_trimester groups the parsed CSVs by trimester id,   *)
(* writes the trimester sheets in ascending order of (year, quarter), and  *)
(* in each sheet puts the pages one under the other in ascending page      *)
(* number: all rows of a lower page before all rows of a higher page.      *)
(***************************************************************************)
\* the files whose data a trimester sheet is made of
FilesWithData == { f \in ParsedFiles : DataRows(f) > 0 }

TrimesterIdOf(f) == parse_filename(f.path).original_basename

RECURSIVE RowsBefore(_, _)
RowsBefore(parts, m) ==
    IF m <= 1 THEN 0 ELSE RowsBefore(parts, m - 1) + DataRows(parts[m - 1])

\* the rows of part m of group g stand in the sheet's frame, in order, right
\* below the rows of the parts before it
PartRowsPresent(g, m) ==
    LET f == g.parts[m]
    IN  \A i \in 1..DataRows(f) : \A j \in 1..Len(f.data.columns) :
            LET c == ColumnIndex(g.df.columns, f.data.columns[j])
            IN  /\ c > 0
                /\ RowsBefore(g.parts, m) + i <= Len(g.df.rows)
                /\ g.df.rows[RowsBefore(g.parts, m) + i][c] = f.data.rows[i][j]

C7_TrimesterSheetsInOrder ==
    trimester_book.kind = "book" =>
        LET groups == trimester_book.groups
            sheets == trimester_book.sheets
        IN  \* one sheet per group, in the order of the groups
            /\ Len(sheets) = Len(groups)
            /\ \A k \in 1..Len(groups) :
                  /\ sheets[k].name = groups[k].trimester_id
                  /\ sheets[k].grid = GridOf(groups[k].df)
            \* the groups are the trimester ids of the files with data
            /\ \A f \in FilesWithData :
                  \E k \in 1..Len(groups) : \E m \in 1..Len(groups[k].parts) :
                      groups[k].parts[m] = f
            /\ \A k \in 1..Len(groups) :
                  /\ Len(groups[k].parts) =
                        Cardinality({ f \in FilesWithData :
                                        TrimesterIdOf(f) = groups[k].trimester_id })
                  /\ \A m \in 1..Len(groups[k].parts) :
                        /\ groups[k].parts[m] \in FilesWithData
                        /\ TrimesterIdOf(groups[k].parts[m]) = groups[k].trimester_id
            /\ \A a, b \in 1..Len(groups) :
                  a # b => groups[a].trimester_id # groups[b].trimester_id
            \* sheets in ascending (year, quarter)
            /\ \A a, b \in 1..Len(groups) :
                  LET x == parse_filename(groups[a].parts[1].path)
                      y == parse_filename(groups[b].parts[1].path)
                  IN  (x.year < y.year \/ (x.year = y.year /\ x.trimester < y.trimester))
                          => a < b
            \* pages in ascending page number, their rows one under the other
            /\ \A k \in 1..Len(groups) :
                  /\ Len(groups[k].df.rows) =
                        RowsBefore(groups[k].parts, Len(groups[k].parts) + 1)
                  /\ \A m, n \in 1..Len(groups[k].parts) :
                        parse_filename(groups[k].parts[m].path).page
                            < parse_filename(groups[k].parts[n].path).page => m < n
                  /\ \A m \in 1..Len(groups[k].parts) : PartRowsPresent(groups[k], m)

\* two sheets, one of them of two pages glob listed with the higher page first
C7_Witness ==
    /\ trimester_book.kind = "book"
    /\ Len(trimester_book.groups) = 2
    /\ \E k \in 1..Len(trimester_book.groups) :
          LET parts == trimester_book.groups[k].parts
          IN  /\ Len(parts) = 2
              /\ parse_filename(parts[1].path).page < parse_filename(parts[2].path).page
              /\ ListingIndex(disk, parts[1]) > ListingIndex(disk, parts[2])

(***************************************************************************)
(* C8: in each of the three aggregation scripts a CSV that is empty or     *)
(* fails to be read is skipped without aborting the run: the data of every *)
(* other parsed CSV that is readable and not empty is in the output.       *)
(***************************************************************************)
FrameOf(f) == [columns |-> f.data.columns, rows |-> f.data.rows]

\* the block of f in the compiled table holds the rows of f at its top
PresentInCompiled(f) ==
    /\ compiled.kind = "table"
    /\ \E k \in 1..Len(compiled.blocks) :
          /\ compiled.blocks[k].file = f
          /\ compiled.blocks[k].width = Len(f.data.columns)
          /\ \A i \in 1..DataRows(f) :
                /\ i <= Len(compiled.final_df.rows)
                /\ BlockRow(k, i) = FillNa(FrameOf(f)).rows[i]

\* the sheet of f in the workbook by page holds the header and the rows of f
PresentInPageBook(f) ==
    /\ page_book.kind = "book"
    /\ LET k == SheetIndex(page_book.sheets,
                           PageSheetName(parse_filename_for_page_sheet(f.path)))
           want == GridOf(FrameOf(f))
       IN  /\ k > 0
           /\ \A i \in 1..Len(want) : \A j \in 1..Len(want[i]) :
                 /\ i <= Len(page_book.sheets[k].grid)
                 /\ j <= Len(page_book.sheets[k].grid[i])
                 /\ page_book.sheets[k].grid[i][j] = want[i][j]

\* the sheet of the trimester of f holds the rows of f
PresentInTrimesterBook(f) ==
    /\ trimester_book.kind = "book"
    /\ \E k \in 1..Len(trimester_book.groups) :
          /\ trimester_book.sheets[k].grid = GridOf(trimester_book.groups[k].df)
          /\ \E m \in 1..Len(trimester_book.groups[k].parts) :
                /\ trimester_book.groups[k].parts[m] = f
                /\ PartRowsPresent(trimester_book.groups[k], m)

C8_SkippedWithoutLosingOthers ==
    (\E e \in ParsedFiles : IsEmptyOrUnreadable(e)) =>
        \A f \in FilesWithData :
            /\ compiled # Pending => PresentInCompiled(f)
            /\ page_book # Pending => PresentInPageBook(f)
            /\ trimester_book # Pending => PresentInTrimesterBook(f)

(***************************************************************************)
(* convert_markdown_to_csv called on the Markdown file of a page.          *)
(***************************************************************************)
InitConvert ==
    /\ NamesInit
    /\ AggIdle
    /\ ExtIdle
    /\ c_pc = "start"
    /\ c_exists \in BOOLEAN
    /\ c_dfs \in TableLists
    /\ c_fault \in Faults
    /\ c_result = NoOutcome

CallConvert ==
    /\ c_pc = "start"
    /\ \E pdf \in PdfNames, page \in {MaxPage} :
          c_result' = convert_markdown_to_csv(c_exists, c_dfs, c_fault, Stem(pdf), page)
    /\ c_pc' = "done"
    /\ UNCHANGED <<c_exists, c_dfs, c_fault>>
    /\ UNCHANGED <<nameVars, aggVars, extVars>>

NextConvert == CallConvert

SpecConvert == InitConvert /\ [][NextConvert]_vars

(***************************************************************************)
(* C10: the all-tables CSV holds the non-empty tables of the page in their *)
(* order, one blank row between two consecutive tables and none before the *)
(* first or after the last: with n >= 2 tables it has the sum of their row *)
(* counts plus n - 1 rows, with n = 1 it is that table.                    *)
(***************************************************************************)
\* a table is not empty after cleaning exactly when a cell of it is not NaN
HasValue(df) ==
    \E i \in 1..Len(df.rows) : \E j \in 1..Len(df.columns) : df.rows[i][j] # NaN

\* the tables of the page that are not empty, in their order
NonEmptyTables == SelectSeq(c_dfs, HasValue)

\* the number of rows of a table that hold a value
ValueRows(df) == Cardinality({ i \in 1..Len(df.rows) : ~AllNaN(df.rows[i]) })

\* the number of rows of the all-tables CSV above table k
RECURSIVE RowsAbove(_, _)
RowsAbove(tables, k) ==
    IF k <= 1 THEN 0 ELSE RowsAbove(tables, k - 1) + ValueRows(tables[k - 1]) + 1

C10_BlankRowBetweenTables ==
    (c_pc = "done" /\ c_result.wrote_all) =>
        LET n     == Len(NonEmptyTables)
            all   == c_result.all_tables
            Blank == { RowsAbove(NonEmptyTables, k) : k \in 2..n }
        IN  /\ n >= 1
            /\ n = 1 => all = CleanTable(NonEmptyTables[1])
            /\ Len(all.rows) = RowsAbove(NonEmptyTables, n) + ValueRows(NonEmptyTables[n])
            /\ \A r \in 1..Len(all.rows) : AllNaN(all.rows[r]) <=> r \in Blank
            /\ \A k \in 1..n :
                  LET t == CleanTable(NonEmptyTables[k])
                  IN  \A i \in 1..Len(t.rows) : \A j \in 1..Len(t.columns) :
                          LET c == ColumnIndex(all.columns, t.columns[j])
                          IN  /\ c > 0
                              /\ all.rows[RowsAbove(NonEmptyTables, k) + i][c] = t.rows[i][j]

\* two tables kept and an empty one dropped between them
C10_Witness ==
    /\ c_pc = "done"
    /\ c_result.wrote_all
    /\ Len(c_dfs) = 3
    /\ HasValue(c_dfs[1]) /\ ~HasValue(c_dfs[2]) /\ HasValue(c_dfs[3])
    /\ Len(c_result.all_tables.rows) = ValueRows(c_dfs[1]) + 1 + ValueRows(c_dfs[3])

(***************************************************************************)
(* The extractor's batch: for every entry of pdfs_to_process whose PDF     *)
(* exists, for every page of the entry, one call of                        *)
(* extract_text_and_tables_via_ocr_with_docling.  What the rasterizer, the *)
(* OCR engine and the file system do is chosen by the environment.         *)
(***************************************************************************)
InitExtract ==
    /\ NamesInit
    /\ AggIdle
    /\ ConvIdle
    /\ e_pc = "for_pdf"
    /\ e_i = 1
    /\ e_j = 0
    /\ e_present \in SUBSET { Config[k].name : k \in 1..Len(Config) }
    /\ e_deleted = {}
    /\ e_attempts = <<>>
    /\ e_failed_at = 0
    /\ e_temp = "none"
    /\ e_temp_path = FALSE
    /\ e_generated = FALSE
    /\ e_exit = "fall"
    /\ e_md = <<>>
    /\ e_conv = NoOutcome
    /\ e_steps = <<>>

\* the call that is running has failed
NoteFailure == IF e_failed_at = 0 THEN Len(e_attempts) ELSE e_failed_at

\* lines 247-256: the PDF of the entry does not exist, its pages are skipped
SkipMissingPdf ==
    /\ e_pc = "for_pdf"
    /\ UNCHANGED e_steps
    /\ e_i <= Len(Config)
    /\ Config[e_i].name \notin e_present
    /\ e_i' = e_i + 1
    /\ UNCHANGED <<e_pc, e_j, e_present, e_deleted, e_attempts, e_failed_at, e_temp,
                   e_temp_path, e_generated, e_exit, e_md, e_conv>>
    /\ UNCHANGED <<nameVars, aggVars, convVars>>

\* lines 247-259: the PDF of the entry exists
StartPdf ==
    /\ e_pc = "for_pdf"
    /\ UNCHANGED e_steps
    /\ e_i <= Len(Config)
    /\ Config[e_i].name \in e_present
    /\ e_pc' = "for_page"
    /\ e_j' = 1
    /\ UNCHANGED <<e_i, e_present, e_deleted, e_attempts, e_failed_at, e_temp,
                   e_temp_path, e_generated, e_exit, e_md, e_conv>>
    /\ UNCHANGED <<nameVars, aggVars, convVars>>

\* line 280: the loop over pdfs_to_process is over
FinishBatch ==
    /\ e_pc = "for_pdf"
    /\ UNCHANGED e_steps
    /\ e_i > Len(Config)
    /\ e_pc' = "done"
    /\ UNCHANGED <<e_i, e_j, e_present, e_deleted, e_attempts, e_failed_at, e_temp,
                   e_temp_path, e_generated, e_exit, e_md, e_conv>>
    /\ UNCHANGED <<nameVars, aggVars, convVars>>

\* lines 261-277: the call for the next page of the entry
CallExtract ==
    /\ e_pc = "for_page"
    /\ e_steps' = <<>>
    /\ e_j <= Len(Config[e_i].pages)
    /\ e_attempts' = Append(e_attempts, <<e_i, Config[e_i].pages[e_j]>>)
    /\ e_pc' = "check_pdf"
    /\ e_temp' = "none"
    /\ e_temp_path' = FALSE
    /\ e_generated' = FALSE
    /\ e_exit' = "fall"
    /\ e_md' = <<>>
    /\ e_conv' = NoOutcome
    /\ UNCHANGED <<e_i, e_j, e_present, e_deleted, e_failed_at>>
    /\ UNCHANGED <<nameVars, aggVars, convVars>>

\* line 279: the pages of the entry are done
FinishPdf ==
    /\ e_pc = "for_page"
    /\ UNCHANGED e_steps
    /\ e_j > Len(Config[e_i].pages)
    /\ e_pc' = "for_pdf"
    /\ e_i' = e_i + 1
    /\ UNCHANGED <<e_j, e_present, e_deleted, e_attempts, e_failed_at, e_temp,
                   e_temp_path, e_generated, e_exit, e_md, e_conv>>
    /\ UNCHANGED <<nameVars, aggVars, convVars>>

\* lines 121-127: the function looks for the PDF again; it may be gone since
\* the batch loop found it
CheckPdf ==
    /\ e_pc = "check_pdf"
    /\ \E gone \in BOOLEAN :
          /\ Config[e_i].name \in e_deleted => gone
          /\ e_steps' = Append(e_steps, <<"check_pdf", IF gone THEN "missing" ELSE "found">>)
          /\ IF gone
             THEN /\ e_deleted' = e_deleted \cup {Config[e_i].name}
                  /\ e_pc' = "returned"
                  /\ e_failed_at' = NoteFailure
             ELSE /\ e_pc' = "rasterize"
                  /\ UNCHANGED <<e_deleted, e_failed_at>>
    /\ UNCHANGED <<e_i, e_j, e_present, e_attempts, e_temp, e_temp_path, e_generated,
                   e_exit, e_md, e_conv>>
    /\ UNCHANGED <<nameVars, aggVars, convVars>>

\* lines 129-142: convert_from_path raises a pdf2image error or another
\* exception, returns no image, or returns the image of the page
Rasterize ==
    /\ e_pc = "rasterize"
    /\ \E outcome \in {"pdf2image_error", "exception", "no_images", "images"} :
          /\ e_steps' = Append(e_steps, <<"rasterize", outcome>>)
          /\ CASE outcome = "images" ->
                  /\ e_pc' = "save_image"
                  /\ UNCHANGED <<e_exit, e_failed_at>>
            [] outcome = "no_images" ->
                  /\ e_pc' = "finally"
                  /\ e_exit' = "return"
                  /\ e_failed_at' = NoteFailure
            [] OTHER ->
                  /\ e_pc' = OnException
                  /\ e_exit' = ExceptClauseExit
                  /\ e_failed_at' = NoteFailure
    /\ UNCHANGED <<e_i, e_j, e_present, e_deleted, e_attempts, e_temp, e_temp_path,
                   e_generated, e_md, e_conv>>
    /\ UNCHANGED <<nameVars, aggVars, convVars>>

\* lines 144-147: the temporary file is created and the image saved in it;
\* creating it may fail (no path is set), saving may fail (the file exists)
SaveImage ==
    /\ e_pc = "save_image"
    /\ \E outcome \in {"tempfile_error", "save_error", "saved"} :
          /\ e_steps' = Append(e_steps, <<"save_image", outcome>>)
          /\ CASE outcome = "saved" ->
                  /\ e_pc' = "ocr"
                  /\ e_temp' = "present"
                  /\ e_temp_path' = TRUE
                  /\ UNCHANGED <<e_exit, e_failed_at>>
            [] outcome = "save_error" ->
                  /\ e_pc' = OnException
                  /\ e_temp' = "present"
                  /\ e_temp_path' = TRUE
                  /\ e_exit' = ExceptClauseExit
                  /\ e_failed_at' = NoteFailure
            [] OTHER ->
                  /\ e_pc' = OnException
                  /\ e_exit' = ExceptClauseExit
                  /\ e_failed_at' = NoteFailure
                  /\ UNCHANGED <<e_temp, e_temp_path>>
    /\ UNCHANGED <<e_i, e_j, e_present, e_deleted, e_attempts, e_generated, e_md, e_conv>>
    /\ UNCHANGED <<nameVars, aggVars, convVars>>

\* lines 149-167 and 179-181: Docling raises (ImportError or another
\* exception), produces no document, or produces the document
Ocr ==
    /\ e_pc = "ocr"
    /\ \E outcome \in {"import_error", "exception", "no_document", "document"} :
          /\ e_steps' = Append(e_steps, <<"ocr", outcome>>)
          /\ CASE outcome = "document" ->
                  /\ e_pc' = "write_markdown"
                  /\ UNCHANGED <<e_exit, e_failed_at>>
            [] outcome = "no_document" ->
                  /\ e_pc' = "finally"
                  /\ e_exit' = "return"
                  /\ e_failed_at' = NoteFailure
            [] OTHER ->
                  /\ e_pc' = OnException
                  /\ e_exit' = ExceptClauseExit
                  /\ e_failed_at' = NoteFailure
    /\ UNCHANGED <<e_i, e_j, e_present, e_deleted, e_attempts, e_temp, e_temp_path,
                   e_generated, e_md, e_conv>>
    /\ UNCHANGED <<nameVars, aggVars, convVars>>

\* lines 169-178: the Markdown is exported and written; writing may fail
WriteMarkdown ==
    /\ e_pc = "write_markdown"
    /\ \E written \in BOOLEAN, md \in MarkdownPool :
          /\ e_steps' = Append(e_steps, <<"write_markdown",
                                           IF written THEN "written" ELSE "error">>)
          /\ IF written
             THEN /\ e_pc' = "finally"
                  /\ e_md' = md
                  /\ e_generated' = TRUE
                  /\ UNCHANGED <<e_exit, e_failed_at>>
             ELSE /\ e_pc' = OnException
                  /\ e_exit' = ExceptClauseExit
                  /\ e_failed_at' = NoteFailure
                  /\ UNCHANGED <<e_md, e_generated>>
    /\ UNCHANGED <<e_i, e_j, e_present, e_deleted, e_attempts, e_temp, e_temp_path, e_conv>>
    /\ UNCHANGED <<nameVars, aggVars, convVars>>

\* a finally block that leaves the temporary image where it is
TempNeverRemoved(temp_path, temp, removed) == temp

\* lines 193-198: the temporary image after the finally block; os.remove is
\* called when the path is set and the file exists, and it may fail
TempAfterFinally(temp_path, temp, removed) ==
    IF temp_path /\ temp = "present"
    THEN (IF removed THEN "removed" ELSE "remove_failed")
    ELSE temp

\* lines 192-198: the temporary image is removed, unless os.remove fails; then
\* the function returns or goes on to the CSV step
Finally ==
    /\ e_pc = "finally"
    /\ UNCHANGED e_steps
    /\ \E removed \in BOOLEAN :
          e_temp' = TempAfterFinally(e_temp_path, e_temp, removed)
    /\ e_pc' = IF e_exit = "return" THEN "returned" ELSE "convert"
    /\ UNCHANGED <<e_i, e_j, e_present, e_deleted, e_attempts, e_failed_at, e_temp_path,
                   e_generated, e_exit, e_md, e_conv>>
    /\ UNCHANGED <<nameVars, aggVars, convVars>>

\* lines 204-208: the call of convert_markdown_to_csv and what it returns
ConvertWith(fault) ==
    LET result == convert_markdown_to_csv(TRUE, e_md, fault, Stem(Config[e_i].name),
                                          Config[e_i].pages[e_j])
    IN  /\ e_conv' = result
        /\ e_failed_at' = IF result.ret THEN e_failed_at ELSE NoteFailure
        /\ e_steps' = Append(e_steps, <<"convert", fault>>)

\* lines 200-210: the tables of the Markdown are converted to CSV; reading the
\* Markdown may fail, and so may saving a CSV
ConvertTables ==
    /\ e_pc = "convert"
    /\ IF e_generated
       THEN \/ ConvertWith("read")
            \/ \E fault \in Faults \ {"read"} : ConvertWith(fault)
       ELSE UNCHANGED <<e_conv, e_failed_at, e_steps>>
    /\ e_pc' = "returned"
    /\ UNCHANGED <<e_i, e_j, e_present, e_deleted, e_attempts, e_temp, e_temp_path,
                   e_generated, e_exit, e_md>>
    /\ UNCHANGED <<nameVars, aggVars, convVars>>

\* line 278: the call is over, the loop goes to the next page
FinishPage ==
    /\ e_pc = "returned"
    /\ UNCHANGED e_steps
    /\ e_pc' = "for_page"
    /\ e_j' = e_j + 1
    /\ UNCHANGED <<e_i, e_present, e_deleted, e_attempts, e_failed_at, e_temp,
                   e_temp_path, e_generated, e_exit, e_md, e_conv>>
    /\ UNCHANGED <<nameVars, aggVars, convVars>>

NextExtract ==
    \/ SkipMissingPdf \/ StartPdf \/ FinishBatch \/ CallExtract \/ FinishPdf
    \/ CheckPdf \/ Rasterize \/ SaveImage \/ Ocr \/ WriteMarkdown \/ Finally
    \/ ConvertTables \/ FinishPage

SpecExtract == InitExtract /\ [][NextExtract]_vars

\* The script is one sequential process: it takes its next step whenever it
\* has one (every call of a library returns or raises).
FairSpecExtract == SpecExtract /\ WF_vars(NextExtract)

(***************************************************************************)
(* C9: every configured page of every existing PDF is attempted once, in   *)
(* order, and the batch ends.                                              *)
(***************************************************************************)
\* the calls the entry k of the configuration asks for
PairsOf(k) == [j \in 1..Len(Config[k].pages) |-> <<k, Config[k].pages[j]>>]

RECURSIVE ConfiguredPairsFrom(_)
\* the calls asked for by the entries from k on whose PDF exists
ConfiguredPairsFrom(k) ==
    IF k > Len(Config) THEN <<>>
    ELSE (IF Config[k].name \in e_present THEN PairsOf(k) ELSE <<>>)
         \o ConfiguredPairsFrom(k + 1)

ConfiguredPairs == ConfiguredPairsFrom(1)

\* C9: the extractor's batch loop attempts every configured (PDF, page) pair
\* of every PDF that exists exactly once, in configuration order, and always
\* reaches the end of the batch: at every moment the calls made are a prefix
\* of the configured pairs of the existing PDFs, whatever failed in a call,
\* and eventually the batch is finished with all of them made.
C9_EveryPairAttemptedOnce ==
    /\ [](/\ Len(e_attempts) <= Len(ConfiguredPairs)
          /\ e_attempts = SubSeq(ConfiguredPairs, 1, Len(e_attempts)))
    /\ <>(e_pc = "done" /\ e_attempts = ConfiguredPairs)

\* C9 witness: the batch is finished, one PDF did not exist, a call failed and
\* calls for later pages, of another PDF too, were made after it.
C9_Witness ==
    /\ e_pc = "done"
    /\ \E k \in 1..Len(Config) : Config[k].name \notin e_present
    /\ e_failed_at > 0
    /\ e_failed_at < Len(e_attempts)
    /\ e_attempts[Len(e_attempts)][1] # e_attempts[e_failed_at][1]
    /\ e_attempts = ConfiguredPairs

(***************************************************************************)
(* C11: the temporary page image does not outlive the try block.           *)
(***************************************************************************)
\* the positions after the finally block of the running call: the CSV step,
\* the return to the batch loop, and the loop itself until the next call
AfterFinally == {"convert", "returned", "for_page", "for_pdf", "done"}

\* C11: whenever the function has created the temporary PNG file, that file
\* is removed before the function returns or starts the Markdown-to-CSV
\* step, on every path, provided the removal itself does not fail: after the
\* finally block the file is never still present unless os.remove raised,
\* and the path of a created file is always set.
C11_TempImageRemoved ==
    /\ e_pc \in AfterFinally => e_temp \in {"none", "removed", "remove_failed"}
    /\ e_temp # "none" => e_temp_path

\* C11 witness: a call that created the image and then failed (saving the
\* image or the OCR raised, or Docling gave no document) has returned with
\* the image removed.
C11_Witness ==
    /\ e_pc = "returned"
    /\ e_temp = "removed"
    /\ ~e_generated
    /\ e_exit = "return"

(***************************************************************************)
(* C12: the order of the steps of one call, and the CSV step only after    *)
(* the Markdown of the page was written.                                   *)
(***************************************************************************)
\* the steps of a call in the order of the function's text
StepOrder == <<"check_pdf", "rasterize", "save_image", "ocr", "write_markdown", "convert">>

\* the outcome with which a step lets the next one run
StepPassed == <<"found", "images", "saved", "document", "written">>

\* C12: within one call the steps happen in the order rasterize, OCR, write
\* Markdown, convert tables to CSV: the steps taken are an initial part of
\* that order and every step but the last has succeeded, so that when the
\* PDF is missing, no image is returned, the rasterizer or the OCR raises, or
\* Docling gives no document, nothing follows.  convert_markdown_to_csv is
\* called, and a CSV written, only as the step after the complete writing of
\* the Markdown in the same call, and control reaches the CSV step only then.
C12_CsvStepOnlyAfterMarkdown ==
    /\ Len(e_steps) <= Len(StepOrder)
    /\ \A k \in 1..Len(e_steps) : e_steps[k][1] = StepOrder[k]
    /\ \A k \in 1..(Len(e_steps) - 1) : e_steps[k][2] = StepPassed[k]
    /\ e_conv # NoOutcome <=> (Len(e_steps) = 6 /\ e_pc \in AfterFinally)
    /\ Len(e_steps) = 6 => e_generated /\ e_steps[5] = <<"write_markdown", "written">>
    /\ e_pc = "convert" => e_generated
    /\ e_generated <=> (Len(e_steps) >= 5 /\ e_steps[5][2] = "written")

\* C12 witness: a call went through all the steps and wrote the all-tables
\* CSV, after an earlier call of the batch had failed.
C12_Witness ==
    /\ e_pc = "returned"
    /\ Len(e_steps) = 6
    /\ e_conv # NoOutcome
    /\ e_conv.wrote_all
    /\ e_failed_at > 0

(***************************************************************************)
(* C13: when convert_markdown_to_csv writes the all-tables CSV and what it *)
(* returns.                                                                *)
(***************************************************************************)
\* at least one table of the Markdown is non-empty after the cleaning
SomeTableNonEmpty == \E k \in 1..Len(c_dfs) : ~IsEmpty(CleanTable(c_dfs[k]))

\* an exception is raised in the call: the reading or the saving fails, or
\* pd.read_html finds no table (line 42, ValueError)
ExceptionRaised == c_fault # "none" \/ (c_exists /\ Len(c_dfs) = 0)

\* C13: convert_markdown_to_csv writes the '<pdf_basename>_p<page>_all_tables.csv'
\* file if and only if at least one table of the Markdown is non-empty after
\* its all-NaN rows and columns are dropped.  No tables is not an error: when
\* the Markdown file contains no table, or every table is empty after the
\* cleaning, the function returns True and writes no all-tables CSV; it
\* returns False only when the Markdown file does not exist or an exception
\* is raised.  (The first two parts are about calls in which neither the
\* reading nor the saving fails.)
C13_AllTablesIffNonEmptyTable ==
    c_pc = "done" =>
        /\ (c_exists /\ c_fault = "none") => (c_result.wrote_all <=> SomeTableNonEmpty)
        /\ (c_exists /\ c_fault = "none" /\ ~SomeTableNonEmpty) =>
               (c_result.ret = TRUE /\ ~c_result.wrote_all)
        /\ c_result.ret = FALSE => (~c_exists \/ ExceptionRaised)

====
